---- MODULE Spec2Model ----
(***************************************************************************)
(* Model of selenium.webdriver.common.service.Service: the supervisor that *)
(* spawns a driver process, polls it until its port accepts connections,   *)
(* and shuts it down again (cooperative request, then terminate/wait/kill).*)
(* The operating system, the child process and the TCP port are the        *)
(* environment; every library call of the code is one step whose outcome   *)
(* is drawn from the outcomes that call can have.                          *)
(***************************************************************************)
EXTENDS Integers, Sequences, FiniteSets, TLC

VARIABLES
    constructed,   \* "no" before __init__, "ok" after it, "failed" if it raised
    initError,     \* the message of the exception __init__ raised
    portAllocated, \* self.port has been resolved
    log_file,      \* self.log_file: which kind of sink the constructor kept
    sinkOpen,      \* whether the sink object is still open
    process,       \* self.process: 0 is None, n > 0 is the n-th Popen object
    children,      \* one record per child ever spawned (the operating system's view)
    portUp,        \* whether a connect to self.port succeeds right now
    startPc,       \* position of the thread inside start()
    stopPc,        \* position of the thread inside stop()
    count,         \* start(): local variable count
    graceLeft,     \* send_remote_shutdown_command(): iterations left of range(30)
    inDel,         \* the running stop() was called by __del__
    deleted,       \* __del__ has been called: the object is gone
    nCalls,        \* calls made on the object so far
    nStops,        \* explicit stop() calls made since the last start() call
    startResult,   \* how the last start() ended
    reportedCode,  \* status code carried by the process-exited error
    probes,        \* start(): is_connectable() calls made by this call
    sleeps,        \* start(): sleep(0.5) calls made by this call
    lastPoll,      \* start(): what the last process.poll() returned
    lastProbe,     \* start(): what the last is_connectable() returned
    portUpWhen,    \* when the port last came up, relative to the polling of start()
    popenOutcome,  \* start(): what subprocess.Popen did in this call
    sawHandle,     \* stop(): self.process was not None at line 158
    runningAtStop, \* stop(): the child of self.process was running when stop() was called
    reqOutcome,    \* stop(): outcome of request.urlopen
    graceProbe,    \* stop(): result of the last is_connectable() of the grace loop
    terminateRan,  \* stop(): _terminate_process was entered
    killIssued,    \* stop(): process.kill() was called
    sigLive,       \* stop(): signals this call delivered to a running process
    osErr,         \* stop(): an OSError was caught (and logged) in _terminate_process
    stopRaised,    \* stop(): the exception that left stop(), "none" if it returned
    surfaced,      \* the exception that reached the caller of stop() or __del__
    sinkCloseCalls,\* close() calls made on the sink object
    sinkClosings   \* times the sink went from open to closed

progVars == <<log_file, sinkOpen, process, count, graceLeft, inDel>>
envVars == <<children, portUp>>
ctlVars == <<startPc, stopPc, deleted, nCalls, nStops>>
startHist == <<startResult, reportedCode, probes, sleeps, lastPoll, lastProbe, portUpWhen,
               popenOutcome>>
stopHist == <<sawHandle, runningAtStop, reqOutcome, terminateRan, killIssued,
              sigLive, osErr, stopRaised, surfaced>>
sinkHist == <<sinkCloseCalls, sinkClosings>>
ctorVars == <<constructed, initError, portAllocated>>
vars == <<ctorVars, progVars, envVars, ctlVars, startHist, stopHist, graceProbe, sinkHist>>

(***************************************************************************)
(* Bounds of the model and constants of the program.                       *)
(***************************************************************************)
MaxCalls == 3

StartRetries == 60

ShutdownPolls == 30

_HAS_NATIVE_DEVNULL == TRUE

PIPE == "PIPE"
DEVNULL == "DEVNULL"
FILE == "FILE"
SinkKinds == {PIPE, DEVNULL, FILE}

\* Exit statuses a child can end with; "None" is Popen.poll() of a running child.
None == "None"
ExitCodes == {"0", "1"}
SIGTERM_CODE == "-15"
SIGKILL_CODE == "-9"

\* What subprocess.Popen(...) can do.
PopenOutcomes == {"ok", "ENOENT", "EACCES", "OSError", "TypeError", "Exception"}

----------------------------------------------------------------------------
(***************************************************************************)
(* The environment: child processes and the port.                          *)
(***************************************************************************)
Running(c) == c.returncode = None

\* Popen.poll(): the exit status, None while the child runs.
Poll(p) == children[p].returncode

\* utils.is_connectable(self.port)
is_connectable == portUp

\* A running child exits by itself with some status.
ChildExits ==
    \E i \in 1..Len(children), rc \in ExitCodes :
        /\ Running(children[i])
        /\ children' = [children EXCEPT ![i].returncode = rc]
        /\ UNCHANGED <<portUp, progVars, ctlVars, startHist, stopHist, sinkHist>>
    /\ UNCHANGED <<ctorVars>>
    /\ UNCHANGED <<graceProbe>>

\* When the port came up, seen from start(): during the polling while a probe
\* is still to come, after the last probe of the budget (during the last sleep),
\* or outside the polling.
UpPhase ==
    IF startPc \in {"assert", "probe", "sleep"}
    THEN IF probes < StartRetries THEN "budget" ELSE "last_sleep"
    ELSE IF startPc = "returned" THEN "after" ELSE "budget"

\* Something (the child, or another process) starts listening on the port.
PortOpens ==
    /\ ~portUp
    /\ portUp' = TRUE
    /\ portUpWhen' = UpPhase
    /\ UNCHANGED <<children, progVars, ctlVars, stopHist, sinkHist,
                   startResult, reportedCode, probes, sleeps, lastPoll, lastProbe>>
    /\ UNCHANGED <<popenOutcome>>
    /\ UNCHANGED <<ctorVars>>
    /\ UNCHANGED <<graceProbe>>

\* The listener goes away.
PortCloses ==
    /\ portUp
    /\ portUp' = FALSE
    /\ UNCHANGED <<children, progVars, ctlVars, startHist, stopHist, sinkHist>>
    /\ UNCHANGED <<ctorVars>>
    /\ UNCHANGED <<graceProbe>>

----------------------------------------------------------------------------
(***************************************************************************)
(* Construction                                                            *)
(***************************************************************************)
\* safari/service.py lines 50-53: the message of the exception raised for a
\* missing executable; both name where to download Safari from.
MissingExecutableMessage(preview) ==
    IF preview THEN "Safari Technology Preview does not seem to be installed: download"
               ELSE "SafariDriver was not found: download"

InstallSourceMessages ==
    {MissingExecutableMessage(TRUE), MissingExecutableMessage(FALSE)}

\* common/service.py lines 50-57: Service.__init__ resolves the port, keeps
\* the sink and sets self.process = None.
ServiceInit(sink) ==
    /\ portAllocated' = TRUE
    /\ log_file' = sink
    /\ sinkOpen' = TRUE
    /\ process' = 0
    /\ constructed' = "ok"
    /\ UNCHANGED initError

\* safari/service.py with the existence test made after the port and the sink
\* have been resolved.
SafariInitLateCheck ==
    /\ constructed = "no"
    /\ \E exists \in BOOLEAN, preview \in BOOLEAN, quiet \in BOOLEAN :
        IF ~exists
        THEN /\ constructed' = "failed"
             /\ initError' = MissingExecutableMessage(preview)
             /\ portAllocated' = TRUE
             /\ UNCHANGED <<log_file, sinkOpen, process>>
        ELSE ServiceInit(IF quiet THEN FILE ELSE PIPE)
    /\ UNCHANGED <<count, graceLeft, inDel, envVars, ctlVars, startHist, stopHist, sinkHist>>
    /\ UNCHANGED <<graceProbe>>

\* safari/service.py lines 49-62: the Safari variant tests that the executable
\* exists, then resolves the port, opens the null device if quiet (the pipe
\* otherwise) and calls Service.__init__.
SafariInit ==
    /\ constructed = "no"
    /\ \E exists \in BOOLEAN, preview \in BOOLEAN, quiet \in BOOLEAN :
        IF ~exists
        THEN /\ constructed' = "failed"
             /\ initError' = MissingExecutableMessage(preview)
             /\ UNCHANGED <<portAllocated, log_file, sinkOpen, process>>
        ELSE ServiceInit(IF quiet THEN FILE ELSE PIPE)
    /\ UNCHANGED <<count, graceLeft, inDel, envVars, ctlVars, startHist, stopHist, sinkHist>>
    /\ UNCHANGED <<graceProbe>>

\* common/service.py lines 42-57: Service.__init__ reached from a variant that
\* passes its sink through (the default is DEVNULL).
BaseInit ==
    /\ constructed = "no"
    /\ \E sink \in SinkKinds : ServiceInit(sink)
    /\ UNCHANGED <<count, graceLeft, inDel, envVars, ctlVars, startHist, stopHist, sinkHist>>
    /\ UNCHANGED <<graceProbe>>

----------------------------------------------------------------------------
(***************************************************************************)
(* start()                                                                 *)
(***************************************************************************)
CanCall ==
    /\ constructed = "ok"
    /\ startPc = "idle" /\ stopPc = "idle" /\ ~deleted /\ nCalls < MaxCalls

StartCall ==
    /\ CanCall
    /\ startPc' = "spawn"
    /\ nCalls' = nCalls + 1
    /\ nStops' = 0
    /\ startResult' = "none"
    /\ UNCHANGED <<stopPc, deleted, progVars, envVars, stopHist, sinkHist,
                   reportedCode, probes, sleeps, lastPoll, lastProbe, portUpWhen>>
    /\ UNCHANGED <<popenOutcome>>
    /\ UNCHANGED <<ctorVars>>
    /\ UNCHANGED <<graceProbe>>

\* The except clauses of start() with every OSError other than ENOENT and
\* EACCES wrapped like the non-OSError exceptions, instead of re-raised.
SpawnErrorWrapsOSError(outcome) ==
    CASE outcome = "TypeError" -> "TypeError"
      [] outcome = "ENOENT"    -> "NotFound"
      [] outcome = "EACCES"    -> "PermissionDenied"
      [] OTHER                 -> "WebDriverException"

\* The except clauses of start(): what each Popen failure is raised as.
\* "NotFound" and "PermissionDenied" are the WebDriverExceptions of lines 94
\* and 100, "WebDriverException" is the wrapping one of line 108, "OSError" and
\* "TypeError" are the exceptions of Popen re-raised as they are.
SpawnError(outcome) ==
    CASE outcome = "TypeError" -> "TypeError"
      [] outcome = "ENOENT"    -> "NotFound"
      [] outcome = "EACCES"    -> "PermissionDenied"
      [] outcome = "OSError"   -> "OSError"
      [] OTHER                 -> "WebDriverException"

\* Lines 78-112: Popen and its except clauses, then count = 0.
StartSpawn ==
    /\ startPc = "spawn"
    /\ \E outcome \in PopenOutcomes :
        /\ popenOutcome' = outcome
        /\ IF outcome = "ok"
           THEN /\ children' = Append(children, [returncode |-> None, term |-> "none"])
                /\ process' = Len(children) + 1
                /\ count' = 0
                /\ startPc' = "assert"
                /\ UNCHANGED startResult
           ELSE /\ startResult' = SpawnError(outcome)
                /\ startPc' = "returned"
                /\ UNCHANGED <<children, process, count>>
    /\ UNCHANGED <<log_file, sinkOpen, graceLeft, inDel, portUp, stopPc, deleted, nCalls,
                   nStops, reportedCode, probes, sleeps, lastPoll, lastProbe, portUpWhen,
                   stopHist, sinkHist>>
    /\ UNCHANGED <<ctorVars>>
    /\ UNCHANGED <<graceProbe>>

\* Line 126: if return_code:
ReturnCodeTruthy(rc) == rc # None /\ rc # "0"

\* Lines 114 and 123-127: assert_process_still_running()
StartAssert ==
    /\ startPc = "assert"
    /\ lastPoll' = Poll(process)
    /\ IF ReturnCodeTruthy(Poll(process))
       THEN /\ startResult' = "ProcessExited"
            /\ reportedCode' = Poll(process)
            /\ startPc' = "returned"
       ELSE /\ startPc' = "probe"
            /\ UNCHANGED <<startResult, reportedCode>>
    /\ UNCHANGED <<progVars, envVars, stopPc, deleted, nCalls, nStops, probes, sleeps,
                   lastProbe, portUpWhen, stopHist, sinkHist>>
    /\ UNCHANGED <<popenOutcome>>
    /\ UNCHANGED <<ctorVars>>
    /\ UNCHANGED <<graceProbe>>

\* Line 115 with the test inverted: the loop is left when the port is not reachable.
StartProbeInverted ==
    /\ startPc = "probe"
    /\ probes' = probes + 1
    /\ lastProbe' = portUp
    /\ IF ~portUp
       THEN startPc' = "returned" /\ startResult' = "ok"
       ELSE startPc' = "sleep" /\ UNCHANGED startResult
    /\ UNCHANGED <<progVars, envVars, stopPc, deleted, nCalls, nStops, reportedCode,
                   sleeps, lastPoll, portUpWhen, stopHist, sinkHist>>
    /\ UNCHANGED <<popenOutcome>>
    /\ UNCHANGED <<ctorVars>>
    /\ UNCHANGED <<graceProbe>>

\* Lines 115-116: if self.is_connectable(): break
StartProbe ==
    /\ startPc = "probe"
    /\ probes' = probes + 1
    /\ lastProbe' = is_connectable
    /\ IF is_connectable
       THEN startPc' = "returned" /\ startResult' = "ok"
       ELSE startPc' = "sleep" /\ UNCHANGED startResult
    /\ UNCHANGED <<progVars, envVars, stopPc, deleted, nCalls, nStops, reportedCode,
                   sleeps, lastPoll, portUpWhen, stopHist, sinkHist>>
    /\ UNCHANGED <<popenOutcome>>
    /\ UNCHANGED <<ctorVars>>
    /\ UNCHANGED <<graceProbe>>

\* The comparison of line 120 off by one.
BudgetExhaustedEarly(c) == c = StartRetries - 1

\* Line 120: if count == 60
BudgetExhausted(c) == c = StartRetries

\* Lines 118-121: count += 1; sleep(0.5); if count == 60: raise
StartSleep ==
    /\ startPc = "sleep"
    /\ count' = count + 1
    /\ sleeps' = sleeps + 1
    /\ IF BudgetExhausted(count + 1)
       THEN startPc' = "returned" /\ startResult' = "ConnectTimeout"
       ELSE startPc' = "assert" /\ UNCHANGED startResult
    /\ UNCHANGED <<log_file, sinkOpen, process, graceLeft, inDel, envVars, stopPc, deleted,
                   nCalls, nStops, reportedCode, probes, lastPoll, lastProbe, portUpWhen,
                   stopHist, sinkHist>>
    /\ UNCHANGED <<popenOutcome>>
    /\ UNCHANGED <<ctorVars>>
    /\ UNCHANGED <<graceProbe>>

\* start() has returned or raised: its frame is gone.
StartReturn ==
    /\ startPc = "returned"
    /\ startPc' = "idle"
    /\ count' = 0
    /\ probes' = 0
    /\ sleeps' = 0
    /\ lastPoll' = None
    /\ lastProbe' = FALSE
    /\ reportedCode' = None
    /\ portUpWhen' = "budget"
    /\ popenOutcome' = "none"
    /\ UNCHANGED <<log_file, sinkOpen, process, graceLeft, inDel, envVars, stopPc, deleted,
                   nCalls, nStops, startResult, stopHist, sinkHist>>
    /\ UNCHANGED <<ctorVars>>
    /\ UNCHANGED <<graceProbe>>

----------------------------------------------------------------------------
(***************************************************************************)
(* stop(), send_remote_shutdown_command(), _terminate_process(), __del__   *)
(***************************************************************************)
\* A call of stop() begins; byDel says that __del__ made it.
EnterStop(byDel) ==
    /\ stopPc' = "sink"
    /\ inDel' = byDel
    /\ deleted' = byDel
    /\ nCalls' = nCalls + 1
    /\ nStops' = IF byDel THEN nStops ELSE nStops + 1
    /\ runningAtStop' = (process # 0 /\ Running(children[process]))
    /\ UNCHANGED <<log_file, sinkOpen, process, count, graceLeft, envVars, startPc,
                   startHist, sinkHist, sawHandle, reqOutcome, terminateRan, killIssued,
                   sigLive, osErr, stopRaised, surfaced>>

\* __del__ without its suppress(Exception).
SurfacedAlways(e) == e

\* Line 184: under __del__ every Exception that leaves stop() is suppressed.
Surfaced(e) == IF inDel THEN "none" ELSE e

\* The caller calls stop().
StopCall ==
    /\ CanCall
    /\ EnterStop(FALSE)
    /\ UNCHANGED <<popenOutcome>>
    /\ UNCHANGED <<ctorVars>>
    /\ UNCHANGED <<graceProbe>>

\* Lines 180-185: the object is discarded and __del__ calls stop(). An object
\* whose __init__ raised is discarded too, and has __del__ called on it.
DelCall ==
    /\ constructed \in {"ok", "failed"}
    /\ startPc = "idle" /\ stopPc = "idle" /\ ~deleted /\ nCalls < MaxCalls
    /\ EnterStop(TRUE)
    /\ UNCHANGED <<popenOutcome>>
    /\ UNCHANGED <<ctorVars>>
    /\ UNCHANGED <<graceProbe>>

\* The condition of line 153 without its exception for the native null device.
ShouldCloseSinkNoDevnull(f) == f # PIPE

\* Line 153: the condition under which stop() closes the sink.
ShouldCloseSink(f) == f # PIPE /\ ~(f = DEVNULL /\ _HAS_NATIVE_DEVNULL)

\* stop() without the test of line 158.
HandlePresentAlways(p) == TRUE

\* Line 158: if self.process is not None
HandlePresent(p) == p # 0

\* Lines 153-158: close the sink under suppress(Exception); close() of a closed
\* file does nothing. Then test self.process. On an object whose __init__
\* raised, self.log_file does not exist and line 153 raises AttributeError.
StopSink ==
    /\ stopPc = "sink"
    /\ IF constructed # "ok"
       THEN /\ stopRaised' = "AttributeError"
            /\ surfaced' = Surfaced("AttributeError")
            /\ stopPc' = "returned"
            /\ UNCHANGED <<sinkCloseCalls, sinkOpen, sinkClosings, sawHandle>>
       ELSE /\ IF ShouldCloseSink(log_file)
               THEN /\ sinkCloseCalls' = sinkCloseCalls + 1
                    /\ sinkOpen' = FALSE
                    /\ sinkClosings' = IF sinkOpen THEN sinkClosings + 1 ELSE sinkClosings
               ELSE UNCHANGED <<sinkCloseCalls, sinkOpen, sinkClosings>>
            /\ sawHandle' = HandlePresent(process)
            /\ stopPc' = IF HandlePresent(process) THEN "request" ELSE "returned"
            /\ UNCHANGED <<stopRaised, surfaced>>
    /\ UNCHANGED <<log_file, process, count, graceLeft, inDel, envVars, startPc, deleted,
                   nCalls, nStops, startHist, runningAtStop, reqOutcome, terminateRan,
                   killIssued, sigLive, osErr>>
    /\ UNCHANGED <<popenOutcome>>
    /\ UNCHANGED <<ctorVars>>
    /\ UNCHANGED <<graceProbe>>

\* What request.urlopen(service_url + "/shutdown") can do: answer, fail with a
\* URLError (connection refused, or an HTTP error status), fail with an exception
\* that is no URLError (the peer drops the connection before answering), fail
\* with a TypeError, or never return: urlopen is called without a timeout, so
\* a peer that accepts the connection and never answers blocks it for ever.
RequestOutcomes ==
    IF portUp THEN {"response", "HTTPError", "disconnected", "TypeError", "hang"}
              ELSE {"refused", "TypeError"}

\* Line 141: except URLError (HTTPError is a URLError).
IsURLError(o) == o \in {"refused", "HTTPError"}

\* Line 159: with contextlib.suppress(TypeError)
SuppressedByStop(o) == o = "TypeError"

\* Lines 139-142 and 159-160: the shutdown request and what catches its failure.
StopRequest ==
    /\ stopPc = "request"
    /\ \E o \in RequestOutcomes :
        /\ reqOutcome' = o
        /\ IF o = "response"
           THEN /\ stopPc' = "grace"
                /\ graceLeft' = ShutdownPolls
                /\ UNCHANGED <<stopRaised, surfaced>>
           ELSE IF IsURLError(o) \/ SuppressedByStop(o)
           THEN /\ stopPc' = "streams"
                /\ UNCHANGED <<graceLeft, stopRaised, surfaced>>
           ELSE IF o = "hang"
           THEN /\ stopPc' = "blocked"
                /\ UNCHANGED <<graceLeft, stopRaised, surfaced>>
           ELSE /\ stopPc' = "returned"
                /\ stopRaised' = "RemoteDisconnected"
                /\ surfaced' = Surfaced("RemoteDisconnected")
                /\ UNCHANGED graceLeft
    /\ UNCHANGED <<log_file, sinkOpen, process, count, inDel, envVars, startPc, deleted,
                   nCalls, nStops, startHist, sinkHist, sawHandle, runningAtStop,
                   terminateRan, killIssued, sigLive, osErr>>
    /\ UNCHANGED <<popenOutcome>>
    /\ UNCHANGED <<ctorVars>>
    /\ UNCHANGED <<graceProbe>>

\* The grace loop without its break.
StopGraceNoBreak ==
    /\ stopPc = "grace"
    /\ graceProbe' = IF is_connectable THEN "up" ELSE "down"
    /\ graceLeft' = graceLeft - 1
    /\ stopPc' = IF graceLeft = 1 THEN "streams" ELSE "grace"
    /\ UNCHANGED <<log_file, sinkOpen, process, count, inDel, envVars, startPc, deleted,
                   nCalls, nStops, startHist, sinkHist, stopHist>>
    /\ UNCHANGED ctorVars

\* Lines 144-147: for _ in range(30): if not is_connectable(): break; sleep(1)
StopGrace ==
    /\ stopPc = "grace"
    /\ graceProbe' = IF is_connectable THEN "up" ELSE "down"
    /\ IF ~is_connectable
       THEN graceLeft' = 0 /\ stopPc' = "streams"
       ELSE /\ graceLeft' = graceLeft - 1
            /\ stopPc' = IF graceLeft = 1 THEN "streams" ELSE "grace"
    /\ UNCHANGED <<log_file, sinkOpen, process, count, inDel, envVars, startPc, deleted,
                   nCalls, nStops, startHist, sinkHist, stopHist>>
    /\ UNCHANGED <<popenOutcome>>
    /\ UNCHANGED <<ctorVars>>

\* Line 177-178: except OSError: log.error(...)
CatchOSError ==
    /\ osErr' = TRUE
    /\ stopPc' = "returned"

\* Lines 168-172: close the child's streams.
TerminateStreams ==
    /\ stopPc = "streams"
    /\ terminateRan' = TRUE
    /\ \E err \in BOOLEAN :
        IF err THEN CatchOSError ELSE stopPc' = "terminate" /\ UNCHANGED osErr
    /\ UNCHANGED <<progVars, envVars, startPc, deleted, nCalls, nStops, startHist, sinkHist,
                   sawHandle, runningAtStop, reqOutcome, killIssued, sigLive, stopRaised,
                   surfaced>>
    /\ UNCHANGED <<popenOutcome>>
    /\ UNCHANGED <<ctorVars>>
    /\ UNCHANGED <<graceProbe>>

\* What a running child does with the termination signal: it exits within the
\* wait ("honoured"), or it does not ("ignored": it blocks the signal, or its
\* handler takes longer than the wait).
TermReactions == {"honoured", "ignored"}

\* Line 173: self.process.terminate(); Popen sends nothing to a child it knows
\* to have exited.
TerminateSignal ==
    /\ stopPc = "terminate"
    /\ IF Running(children[process])
       THEN \E err \in BOOLEAN, reaction \in TermReactions :
              IF err
              THEN CatchOSError /\ UNCHANGED <<children, sigLive>>
              ELSE /\ children' = [children EXCEPT ![process].term = reaction]
                   /\ sigLive' = sigLive + 1
                   /\ stopPc' = "wait"
                   /\ UNCHANGED osErr
       ELSE stopPc' = "wait" /\ UNCHANGED <<children, sigLive, osErr>>
    /\ UNCHANGED <<progVars, portUp, startPc, deleted, nCalls, nStops, startHist, sinkHist,
                   sawHandle, runningAtStop, reqOutcome, terminateRan, killIssued,
                   stopRaised, surfaced>>
    /\ UNCHANGED <<popenOutcome>>
    /\ UNCHANGED <<ctorVars>>
    /\ UNCHANGED <<graceProbe>>

\* Line 174: self.process.wait(60). A child that got the signal and honours it
\* exits within the wait; for any other running child the wait runs out and
\* raises subprocess.TimeoutExpired, which is no OSError.
TerminateWait ==
    /\ stopPc = "wait"
    /\ LET c == children[process] IN
       IF ~Running(c)
       THEN stopPc' = "kill" /\ UNCHANGED <<children, stopRaised, surfaced>>
       ELSE IF c.term = "honoured"
       THEN /\ children' = [children EXCEPT ![process].returncode = SIGTERM_CODE]
            /\ stopPc' = "kill"
            /\ UNCHANGED <<stopRaised, surfaced>>
       ELSE /\ stopPc' = "returned"
            /\ stopRaised' = "TimeoutExpired"
            /\ surfaced' = Surfaced("TimeoutExpired")
            /\ UNCHANGED children
    /\ UNCHANGED <<progVars, portUp, startPc, deleted, nCalls, nStops, startHist, sinkHist,
                   sawHandle, runningAtStop, reqOutcome, terminateRan, killIssued, sigLive,
                   osErr>>
    /\ UNCHANGED <<popenOutcome>>
    /\ UNCHANGED <<ctorVars>>
    /\ UNCHANGED <<graceProbe>>

\* Line 176: self.process.kill()
TerminateKill ==
    /\ stopPc = "kill"
    /\ killIssued' = TRUE
    /\ IF Running(children[process])
       THEN \E err \in BOOLEAN :
              IF err
              THEN CatchOSError /\ UNCHANGED <<children, sigLive>>
              ELSE /\ children' = [children EXCEPT ![process].returncode = SIGKILL_CODE]
                   /\ sigLive' = sigLive + 1
                   /\ stopPc' = "returned"
                   /\ UNCHANGED osErr
       ELSE stopPc' = "returned" /\ UNCHANGED <<children, sigLive, osErr>>
    /\ UNCHANGED <<progVars, portUp, startPc, deleted, nCalls, nStops, startHist, sinkHist,
                   sawHandle, runningAtStop, reqOutcome, terminateRan, stopRaised, surfaced>>
    /\ UNCHANGED <<popenOutcome>>
    /\ UNCHANGED <<ctorVars>>
    /\ UNCHANGED <<graceProbe>>

\* stop() clearing self.process on its way out.
StopReturnClearing ==
    /\ stopPc = "returned"
    /\ stopPc' = "idle"
    /\ process' = 0
    /\ inDel' = FALSE
    /\ sawHandle' = FALSE
    /\ runningAtStop' = FALSE
    /\ reqOutcome' = "none"
    /\ graceProbe' = "none"
    /\ terminateRan' = FALSE
    /\ killIssued' = FALSE
    /\ sigLive' = 0
    /\ osErr' = FALSE
    /\ stopRaised' = "none"
    /\ surfaced' = "none"
    /\ UNCHANGED <<log_file, sinkOpen, count, graceLeft, envVars, startPc, deleted,
                   nCalls, nStops, startHist, sinkHist>>
    /\ UNCHANGED <<popenOutcome>>
    /\ UNCHANGED <<ctorVars>>

\* stop() has returned or raised: its frame is gone.
StopReturn ==
    /\ stopPc = "returned"
    /\ stopPc' = "idle"
    /\ inDel' = FALSE
    /\ sawHandle' = FALSE
    /\ runningAtStop' = FALSE
    /\ reqOutcome' = "none"
    /\ graceProbe' = "none"
    /\ terminateRan' = FALSE
    /\ killIssued' = FALSE
    /\ sigLive' = 0
    /\ osErr' = FALSE
    /\ stopRaised' = "none"
    /\ surfaced' = "none"
    /\ UNCHANGED <<log_file, sinkOpen, process, count, graceLeft, envVars, startPc, deleted,
                   nCalls, nStops, startHist, sinkHist>>
    /\ UNCHANGED <<popenOutcome>>
    /\ UNCHANGED <<ctorVars>>

----------------------------------------------------------------------------
Init ==
    /\ constructed = "no"
    /\ initError = "none"
    /\ portAllocated = FALSE
    /\ log_file = "unset"
    /\ sinkOpen = FALSE
    /\ process = 0
    /\ children = <<>>
    /\ portUp = FALSE
    /\ startPc = "idle"
    /\ stopPc = "idle"
    /\ count = 0
    /\ graceLeft = 0
    /\ inDel = FALSE
    /\ deleted = FALSE
    /\ nCalls = 0
    /\ nStops = 0
    /\ startResult = "none"
    /\ reportedCode = None
    /\ probes = 0
    /\ sleeps = 0
    /\ lastPoll = None
    /\ lastProbe = FALSE
    /\ portUpWhen = "budget"
    /\ popenOutcome = "none"
    /\ sawHandle = FALSE
    /\ runningAtStop = FALSE
    /\ reqOutcome = "none"
    /\ graceProbe = "none"
    /\ terminateRan = FALSE
    /\ killIssued = FALSE
    /\ sigLive = 0
    /\ osErr = FALSE
    /\ stopRaised = "none"
    /\ surfaced = "none"
    /\ sinkCloseCalls = 0
    /\ sinkClosings = 0

Next ==
    \/ SafariInit
    \/ BaseInit
    \/ ChildExits
    \/ PortOpens
    \/ PortCloses
    \/ StartCall
    \/ StartSpawn
    \/ StartAssert
    \/ StartProbe
    \/ StartSleep
    \/ StartReturn
    \/ StopCall
    \/ DelCall
    \/ StopSink
    \/ StopRequest
    \/ StopGrace
    \/ TerminateStreams
    \/ TerminateSignal
    \/ TerminateWait
    \/ TerminateKill
    \/ StopReturn

Spec == Init /\ [][Next]_vars

----------------------------------------------------------------------------
(***************************************************************************)
(* One start() and one stop() on the same supervisor from two threads.     *)
(* Each thread takes the steps of its call at its own pace, so the steps   *)
(* of the two calls interleave in every order, the two serial orders       *)
(* included. The frames are kept after the calls have ended (there is no   *)
(* StartReturn or StopReturn step), so each call is made once. __del__     *)
(* is not among the racing calls: it runs when the last reference is gone, *)
(* and a thread inside start() holds one.                                  *)
(***************************************************************************)
\* A thread calls start(), whatever the other thread is doing.
RaceStartCall ==
    /\ constructed = "ok"
    /\ startPc = "idle"
    /\ startPc' = "spawn"
    /\ nCalls' = nCalls + 1
    /\ UNCHANGED <<stopPc, deleted, nStops, progVars, envVars, startHist, stopHist,
                   sinkHist, graceProbe, ctorVars>>

\* A thread calls stop(), whatever the other thread is doing.
RaceStopCall ==
    /\ constructed = "ok"
    /\ stopPc = "idle"
    /\ EnterStop(FALSE)
    /\ UNCHANGED <<popenOutcome, graceProbe, ctorVars>>

NextRace ==
    \/ SafariInit
    \/ BaseInit
    \/ ChildExits
    \/ PortOpens
    \/ PortCloses
    \/ RaceStartCall
    \/ StartSpawn
    \/ StartAssert
    \/ StartProbe
    \/ StartSleep
    \/ RaceStopCall
    \/ StopSink
    \/ StopRequest
    \/ StopGrace
    \/ TerminateStreams
    \/ TerminateSignal
    \/ TerminateWait
    \/ TerminateKill

SpecRace == Init /\ [][NextRace]_vars

----------------------------------------------------------------------------
(***************************************************************************)
(* Properties                                                              *)
(***************************************************************************)
StartDone == startPc = "returned"
StopDone == stopPc = "returned"
SpawnedThisCall == startResult \in {"ok", "ProcessExited", "ConnectTimeout"}

\* C1: a stop() called while the child runs, whose shutdown request fails with
\* a URLError (endpoint absent or unreachable), leaves the child not running
\* when it finishes, whatever the child does with the termination signal
\* (stated for the calls in which the operating system refused no signal).
C1_ForcedTermination ==
    (StopDone /\ runningAtStop /\ IsURLError(reqOutcome) /\ ~osErr)
        => ~Running(children[process])

\* C2: every stop() that finds self.process not None executes
\* _terminate_process, whatever the outcome of the shutdown request.
C2_TerminateAlwaysRuns ==
    (StopDone /\ sawHandle) => terminateRan

\* C3: stop() never raises to its caller, in any state of the supervisor and
\* for any outcome of its steps.
C3_StopNeverRaises ==
    (StopDone /\ ~inDel) => (stopRaised = "none" /\ surfaced = "none")

\* C4: a child that has exited, with any status (0 included), is detected by
\* the next poll of start(): the iteration does not go on to probe the port,
\* and start() fails with the process-exited error carrying the child's exit
\* status before the retry budget is used up.
C4_FailFastOnCrash ==
    /\ startPc = "probe" => lastPoll = None
    /\ (StartDone /\ startResult = "ConnectTimeout") => lastPoll = None
    /\ (StartDone /\ startResult = "ProcessExited")
          => (reportedCode = Poll(process) /\ reportedCode # None /\ count < StartRetries)

\* C5: start() fails with the connect-timeout error after exactly 60 probes,
\* each followed by one sleep: never after fewer, and the polling never goes on
\* past the 60th sleep.
C5_TimeoutBound ==
    /\ (StartDone /\ startResult = "ConnectTimeout")
          => (probes = StartRetries /\ sleeps = StartRetries /\ count = StartRetries
              /\ ~lastProbe)
    /\ probes <= StartRetries /\ sleeps <= StartRetries
    /\ startPc \in {"assert", "probe"} => (count < StartRetries /\ probes = count)
    /\ startPc = "sleep" => (probes = count + 1 /\ sleeps = count)

\* C5 witness: start() has raised the connect-timeout after 60 probes and 60
\* sleeps, with the child still running and the port down.
C5_Witness ==
    /\ StartDone /\ startResult = "ConnectTimeout"
    /\ Running(children[process]) /\ ~portUp
    /\ probes = StartRetries /\ sleeps = StartRetries

\* C6 as claimed: if the spawn succeeded, the child is alive and the port came
\* up at any moment before start() gave up (the last sleep included) and stayed
\* up, start() returned without error.
C6_ReachableWithinBudget ==
    (StartDone /\ SpawnedThisCall /\ Running(children[process]) /\ portUp
        /\ portUpWhen \in {"budget", "last_sleep"})
        => startResult = "ok"

\* C6 as amended: if the spawn succeeded, the child is alive and the port came
\* up before the 60th probe was made and stayed up, start() returned without
\* error.
C6_ReachableBeforeLastProbe ==
    (StartDone /\ SpawnedThisCall /\ Running(children[process]) /\ portUp
        /\ portUpWhen = "budget")
        => startResult = "ok"

\* C6 witness: start() returned without error at its 60th probe, for a port
\* that came up during the polling, with the child alive.
C6_Witness ==
    /\ StartDone /\ startResult = "ok" /\ Running(children[process])
    /\ portUp /\ portUpWhen = "budget" /\ probes = StartRetries

\* C7: when start() returns without error, its last poll found the child
\* running and its last probe found the port accepting connections.
C7_ReadyOnSuccess ==
    (StartDone /\ startResult = "ok") => (lastPoll = None /\ lastProbe)

\* C8: after a successful start(), the second of two stop() calls raises
\* nothing and delivers no signal to a running process.
C8_IdempotentStop ==
    (StopDone /\ ~inDel /\ startResult = "ok" /\ nStops = 2)
        => (stopRaised = "none" /\ sigLive = 0)

\* C9: the sink goes from open to closed at most once over all stop() calls
\* and the destroy-time cleanup, later close() calls change nothing, and a sink
\* that is the inherited pipe or the native null device is never closed.
C9_SinkCloseOnce ==
    /\ sinkClosings <= 1
    /\ constructed = "ok" => (sinkOpen <=> sinkClosings = 0)
    /\ sinkCloseCalls >= sinkClosings
    /\ log_file \in {PIPE, DEVNULL} => (sinkCloseCalls = 0 /\ sinkOpen)
    /\ (log_file = FILE /\ sinkCloseCalls > 0) => ~sinkOpen

\* C9 witness: a file sink after stop(), stop() and __del__: three close()
\* calls, one closing.
C9_Witness ==
    /\ log_file = FILE /\ deleted /\ stopPc = "idle"
    /\ sinkCloseCalls = 3 /\ sinkClosings = 1 /\ ~sinkOpen

\* C10 as claimed: self.process is None before a child was spawned, not None
\* from the spawn until a shutdown has completed, and None again once stop()
\* or the implicit cleanup has completed (without raising and without a
\* logged error).
C10_HandleClearedAfterStop ==
    /\ Len(children) = 0 => process = 0
    /\ (Len(children) > 0 /\ nStops = 0 /\ ~deleted) => process # 0
    /\ (StopDone /\ stopRaised = "none" /\ ~osErr) => process = 0

\* C10 as amended: self.process is None exactly until the first successful
\* spawn; from then on it is the handle of the child spawned last, also after
\* stop() and the implicit cleanup have completed.
C10_HandleKeptAfterSpawn ==
    /\ process = Len(children)
    /\ (StopDone /\ sawHandle) => process # 0

\* C10 witness: a stop() has completed, the child has exited, and the handle
\* is still set.
C10_Witness ==
    /\ stopPc = "idle" /\ startPc = "idle" /\ nStops >= 1
    /\ process # 0 /\ ~Running(children[process])

C12_MissingExecutable ==
    /\ constructed = "failed" =>
          /\ initError \in InstallSourceMessages
          /\ ~portAllocated /\ log_file = "unset" /\ ~sinkOpen
          /\ Len(children) = 0 /\ process = 0 /\ startPc = "idle"
          /\ surfaced = "none" /\ reqOutcome = "none" /\ sigLive = 0
          /\ ~terminateRan /\ sinkCloseCalls = 0
    /\ constructed # "failed" => initError = "none"

\* C12 witness: the constructor has failed and __del__ has run stop() to its
\* end on the object: the AttributeError of line 153 was suppressed.
C12_Witness ==
    /\ constructed = "failed" /\ deleted /\ StopDone /\ inDel
    /\ stopRaised = "AttributeError" /\ surfaced = "none"

C15_SingleInstance ==
    /\ Cardinality({i \in 1..Len(children) : Running(children[i])}) <= 1
    /\ (StopDone /\ ~inDel /\ stopRaised = "none" /\ ~osErr)
          => \A i \in 1..Len(children) : ~Running(children[i])

\* C17: every execution of _terminate_process closes the streams first, then
\* sends the termination signal, waits, and always calls kill(), whether the
\* child exited during the wait or the wait ran out (stated for the
\* executions in which no OSError was caught).
C17_TerminationSequence ==
    /\ stopPc \in {"terminate", "wait", "kill"} => terminateRan
    /\ (StopDone /\ terminateRan /\ ~osErr) => killIssued

\* The steps of stop().
StopStep ==
    \/ StopSink
    \/ StopRequest
    \/ StopGrace
    \/ TerminateStreams
    \/ TerminateSignal
    \/ TerminateWait
    \/ TerminateKill

\* C18: no step of stop() blocks without bound: while stop() is running, its
\* next step can always be taken, and the grace loop has at most 30
\* iterations left.
C18_StopTerminates ==
    /\ stopPc \notin {"idle", "returned"} => ENABLED StopStep
    /\ graceLeft \in 0..ShutdownPolls

\* C19: in every iteration of the polling loop the exit status is inspected
\* before the port is probed: an iteration that finds the port unreachable
\* has found the child running, and the iteration that raises the
\* process-exited error has made no probe.
C19_LivenessBeforeReachability ==
    /\ startPc = "probe" => probes = count
    /\ (startPc = "sleep" /\ ~lastProbe) => lastPoll = None
    /\ (StartDone /\ startResult = "ProcessExited") => probes = count

\* C20: when start() fails after a successful spawn, it has sent no signal
\* and no request, and the handle is the spawned child; the stop() that
\* follows finds the handle, sends the shutdown request and runs
\* _terminate_process.
C20_FailedStartKeepsHandle ==
    /\ (StartDone /\ startResult \in {"ConnectTimeout", "ProcessExited"}) =>
          /\ process # 0 /\ process = Len(children)
          /\ children[process].term = "none"
          /\ children[process].returncode \notin {SIGTERM_CODE, SIGKILL_CODE}
          /\ startResult = "ConnectTimeout" => lastPoll \in {None, "0"}
    /\ (StopDone /\ nStops = 1 /\ runningAtStop
          /\ startResult \in {"ConnectTimeout", "ProcessExited"}) =>
          (sawHandle /\ reqOutcome # "none" /\ terminateRan)

\* C16 as claimed: in every stop() that finds the handle, once the shutdown
\* request got a response, an HTTP error status or a connection failure, the
\* port is polled: at most 30 probes, and the loop is left at the first probe
\* that finds the port down.
C16_GracePeriodAlways ==
    /\ (stopPc \in {"streams", "terminate", "wait", "kill"}
          /\ reqOutcome \in {"response", "HTTPError", "refused"}) => graceProbe # "none"
    /\ stopPc = "grace" => (graceProbe # "down" /\ graceLeft \in 1..ShutdownPolls)

\* C16 as amended: the port is polled only after the shutdown request got a
\* response: at most 30 probes, and the loop is left at the first probe that
\* finds the port down; after a request that failed with a URLError (HTTP
\* error status, connection failure) or a TypeError no probe is made.
C16_GracePeriodAfterResponse ==
    /\ (stopPc \in {"streams", "terminate", "wait", "kill"} /\ reqOutcome = "response")
          => graceProbe # "none"
    /\ reqOutcome \in {"HTTPError", "refused", "TypeError", "disconnected"}
          => graceProbe = "none"
    /\ stopPc = "grace" =>
          (reqOutcome = "response" /\ graceProbe # "down" /\ graceLeft \in 1..ShutdownPolls)
    /\ (graceProbe = "up" /\ stopPc # "grace") => graceLeft = 0

\* C16 witness: the grace loop has made its 30 probes, all finding the port up,
\* and stop() has gone on to _terminate_process.
C16_Witness ==
    /\ stopPc = "streams" /\ reqOutcome = "response"
    /\ graceProbe = "up" /\ graceLeft = 0

\* The steps that read a field of self.process (lines 125, 169-176) are
\* taken with the handle set.
HandleDerefSafe ==
    /\ startPc \in {"assert", "probe", "sleep"} => process # 0
    /\ stopPc \in {"streams", "terminate", "wait", "kill"} => process # 0

\* C14 as claimed: in every interleaving of one start() and one stop(), neither
\* call reads a field of a null handle, and once both calls have ended no
\* child spawned by the supervisor is running.
C14_RaceSafe ==
    /\ HandleDerefSafe
    /\ (StartDone /\ StopDone) => \A i \in 1..Len(children) : ~Running(children[i])

\* C14 as amended: in every interleaving of one start() and one stop(), neither
\* call reads a field of a null handle; a stop() that tested the handle before
\* start() stored it sends no request and no signal, so the child that start()
\* spawned is left as start() left it, and a stop() that found the handle found
\* the child start() spawned.
C14_RaceHandleSafe ==
    /\ HandleDerefSafe
    /\ sawHandle => (process = 1 /\ popenOutcome = "ok")
    /\ (StopDone /\ ~sawHandle) =>
          /\ reqOutcome = "none" /\ graceProbe = "none"
          /\ ~terminateRan /\ ~killIssued /\ stopRaised = "none"
          /\ \A i \in 1..Len(children) :
                /\ children[i].term = "none"
                /\ children[i].returncode \notin {SIGTERM_CODE, SIGKILL_CODE}

\* C14 witness: stop() tested the handle before start() stored it; both calls
\* have ended, start() successfully, and the child is running.
C14_Witness ==
    /\ StartDone /\ StopDone /\ ~sawHandle
    /\ startResult = "ok" /\ process = 1 /\ Running(children[process])

====
